---------------------------- MODULE Spec2Model ----------------------------
(***************************************************************************)
(* Layout search of Python-Image-Compilers.                                *)
(*                                                                         *)
(*   pack_imagesv2.py  exhaustive search: generate_layouts, its dense and  *)
(*                     sparse filters, select_better_layout, the fold of   *)
(*                     compute_layout and the shortfall diagnostics of     *)
(*                     pack_animation.           (specification Spec)      *)
(*   pack_images.py    simulated annealing: simulate_annealing with the    *)
(*                     layout instantiation of compute_layout.             *)
(*                                (specifications SpecAnneal, FairAnneal)  *)
(*                                                                         *)
(* fps is carried by Animation but read only by render_html; it is left    *)
(* out of the descriptor.  Image decoding, pasting and the HTML output are *)
(* not modelled.                                                           *)
(***************************************************************************)
EXTENDS Integers, Sequences, FiniteSets

VARIABLES
    animation,            \* Animation(frame_width, frame_height, frame_count)
    pc,                   \* position of the running script
    \* ---- pack_imagesv2.py
    ret,                  \* who called compute_layout: "top", "line214", "line226"
    sparse,               \* compute_layout's parameter
    columns, rows,        \* loop variables of generate_layouts
    best_layout,          \* compute_layout's accumulator
    result,               \* value returned to a direct caller of compute_layout
    layout,               \* pack_animation: layout (line 214)
    sparse_layout,        \* pack_animation: sparse_layout (line 226)
    removed_frame_count,  \* pack_animation: line 223
    add_frame_count,      \* pack_animation: line 228
    message,              \* which of pack_animation's prints ran last
    generated,            \* the three generators' outputs, run to exhaustion
    \* ---- pack_images.py
    initial_state,        \* params.initial_state
    current_state, current_energy,
    best_state, best_energy,
    current_temp,         \* in units of 0.001
    iterations,           \* history: loop iterations run so far
    min_energy            \* history: least energy among the initial and accepted states

varsV2 == <<ret, sparse, columns, rows, best_layout, result, layout, sparse_layout,
            removed_frame_count, add_frame_count, message, generated>>
varsV1 == <<initial_state, current_state, current_energy, best_state, best_energy,
            current_temp, iterations, min_energy>>
vars == <<animation, pc, varsV2, varsV1>>

----------------------------------------------------------------------------
(* Bounds of the model. *)

\* frame counts run over 1..MaxFrameCount
MaxFrameCount == 12
\* frame sides are MAX_SIDE_LENGTH \div k for k in 1..MaxGridSide, so that the
\* candidate grid has up to MaxGridSide columns and rows
MaxGridSide == 5

----------------------------------------------------------------------------
(* Values shared by both scripts. *)

Animation(w, h, n) == [frame_width |-> w, frame_height |-> h, frame_count |-> n]

Layout(c, r) == [columns |-> c, rows |-> r]

\* Python's None; a record of another shape, so that reading .columns of it fails
None == [none |-> TRUE]

abs(x) == IF x < 0 THEN -x ELSE x

----------------------------------------------------------------------------
(* pack_imagesv2.py *)

MAX_SIDE_LENGTH == 11000

\* mutant of max_columns: the quotient rounded up instead of truncated
max_columns_rounded_up(a) ==
    (MAX_SIDE_LENGTH + a.frame_width - 1) \div a.frame_width

\* int(MAX_SIDE_LENGTH / frame_width): a float division truncated.  For integers
\* of this size the float quotient is within 1e-12 of the real one and a
\* non-integer real quotient is at least 1/frame_width from any integer, so the
\* truncation is the floor of the exact quotient.
max_columns(a) == MAX_SIDE_LENGTH \div a.frame_width

\* mutant of max_rows: at least one row, whatever the frame height
max_rows_at_least_one(a) ==
    IF MAX_SIDE_LENGTH \div a.frame_height < 1 THEN 1
    ELSE MAX_SIDE_LENGTH \div a.frame_height

max_rows(a) == MAX_SIDE_LENGTH \div a.frame_height

\* generate_layouts as the sequence it yields: columns outer, rows inner
generate_layouts(a) ==
    LET mc == max_columns(a)
        mr == max_rows(a)
    IN  [i \in 1..(mc * mr) |-> Layout(((i - 1) \div mr) + 1, ((i - 1) % mr) + 1)]

is_sparse(a, l) == l.columns * l.rows > a.frame_count

\* mutant of is_dense: a strict comparison
is_dense_strict(a, l) == l.columns * l.rows < a.frame_count

is_dense(a, l) == l.columns * l.rows <= a.frame_count

generate_sparse_layouts(a) ==
    SelectSeq(generate_layouts(a), LAMBDA l : is_sparse(a, l))

generate_dense_layouts(a) ==
    SelectSeq(generate_layouts(a), LAMBDA l : is_dense(a, l))

\* mutant of select_better_layout: the second layout wins an exact tie
select_better_layout_tie_to_second(a, layout1, layout2) ==
    LET layout1_frame_delta == abs(layout1.columns * layout1.rows - a.frame_count)
        layout2_frame_delta == abs(layout2.columns * layout2.rows - a.frame_count)
        layout1_side_length_delta ==
            abs(layout1.columns * a.frame_width - layout1.rows * a.frame_height)
        layout2_side_length_delta ==
            abs(layout2.columns * a.frame_width - layout2.rows * a.frame_height)
    IN  IF layout1_frame_delta < layout2_frame_delta THEN layout1
        ELSE IF layout1_frame_delta > layout2_frame_delta THEN layout2
        ELSE IF layout1_side_length_delta < layout2_side_length_delta THEN layout1
        ELSE layout2

\* mutant of select_better_layout: the frame delta is not compared
select_better_layout_squarest(a, layout1, layout2) ==
    LET layout1_side_length_delta ==
            abs(layout1.columns * a.frame_width - layout1.rows * a.frame_height)
        layout2_side_length_delta ==
            abs(layout2.columns * a.frame_width - layout2.rows * a.frame_height)
    IN  IF layout1_side_length_delta < layout2_side_length_delta THEN layout1
        ELSE IF layout1_side_length_delta > layout2_side_length_delta THEN layout2
        ELSE layout1

select_better_layout(a, layout1, layout2) ==
    LET layout1_frame_delta == abs(layout1.columns * layout1.rows - a.frame_count)
        layout2_frame_delta == abs(layout2.columns * layout2.rows - a.frame_count)
        layout1_side_length_delta ==
            abs(layout1.columns * a.frame_width - layout1.rows * a.frame_height)
        layout2_side_length_delta ==
            abs(layout2.columns * a.frame_width - layout2.rows * a.frame_height)
    IN  IF layout1_frame_delta < layout2_frame_delta THEN layout1
        ELSE IF layout1_frame_delta > layout2_frame_delta THEN layout2
        ELSE IF layout1_side_length_delta < layout2_side_length_delta THEN layout1
        ELSE IF layout1_side_length_delta > layout2_side_length_delta THEN layout2
        ELSE layout1

\* the filter compute_layout picks with its sparse parameter
selected(a, s, l) == IF s THEN is_sparse(a, l) ELSE is_dense(a, l)

\* the nested for loops of generate_layouts still have a layout to yield
InGrid == columns <= max_columns(animation) /\ rows <= max_rows(animation)

\* the loops' next position
NextColumns == IF rows < max_rows(animation) THEN columns ELSE columns + 1

NextRows == IF rows < max_rows(animation) THEN rows + 1 ELSE 1


\* frame sides of the model: one too long for any atlas, and one for each grid
\* side 1..MaxGridSide
FrameSides == {MAX_SIDE_LENGTH + 1} \cup {MAX_SIDE_LENGTH \div k : k \in 1..MaxGridSide}

\* the descriptors pack_animation can build (frame_count = 0 exits at line 207),
\* with the two 100 x 100 scenarios of the specification's section 8
Descriptors ==
    {Animation(w, h, n) : w \in FrameSides, h \in FrameSides, n \in 1..MaxFrameCount}
    \cup {Animation(100, 100, 10), Animation(100, 100, 11)}

\* pack_images.py does not run
IdleV1 ==
    /\ initial_state = None
    /\ current_state = None
    /\ current_energy = 0
    /\ best_state = None
    /\ best_energy = 0
    /\ current_temp = 0
    /\ iterations = 0
    /\ min_energy = 0

\* Entry of compute_layout (lines 66-72) for one of three callers: a direct call
\* in either mode, pack_animation at line 214, or the generators run on their own.
Init ==
    /\ animation \in Descriptors
    /\ \/ pc = "compute_layout" /\ ret = "top" /\ sparse \in BOOLEAN
       \/ pc = "compute_layout" /\ ret = "line214" /\ sparse = FALSE
       \/ pc = "generators" /\ ret = "top" /\ sparse = FALSE
    /\ columns = 1
    /\ rows = 1
    /\ best_layout = None
    /\ result = None
    /\ layout = None
    /\ sparse_layout = None
    /\ removed_frame_count = None
    /\ add_frame_count = None
    /\ message = "none"
    /\ generated = None
    /\ IdleV1

\* compute_layout lines 74-78 on a layout the selected generator yields
Fold ==
    /\ pc = "compute_layout"
    /\ InGrid
    /\ selected(animation, sparse, Layout(columns, rows))
    /\ best_layout' = IF best_layout = None
                      THEN Layout(columns, rows)
                      ELSE select_better_layout(animation, best_layout,
                                                Layout(columns, rows))
    /\ columns' = NextColumns
    /\ rows' = NextRows
    /\ UNCHANGED <<animation, pc, ret, sparse, result, layout, sparse_layout,
                   removed_frame_count, add_frame_count, message, generated, varsV1>>

\* a layout of generate_layouts that the selected filter (line 30 or 36) drops
Skip ==
    /\ pc = "compute_layout"
    /\ InGrid
    /\ ~selected(animation, sparse, Layout(columns, rows))
    /\ columns' = NextColumns
    /\ rows' = NextRows
    /\ UNCHANGED <<animation, pc, ret, sparse, best_layout, result, layout,
                   sparse_layout, removed_frame_count, add_frame_count, message,
                   generated, varsV1>>

\* line 80, to a direct caller
ReturnTop ==
    /\ pc = "compute_layout"
    /\ ~InGrid
    /\ ret = "top"
    /\ result' = best_layout
    /\ pc' = "returned"
    /\ UNCHANGED <<animation, ret, sparse, columns, rows, best_layout, layout,
                   sparse_layout, removed_frame_count, add_frame_count, message,
                   generated, varsV1>>

\* pack_animation lines 214-218: no dense layout, exit(1)
ReturnDenseNone ==
    /\ pc = "compute_layout"
    /\ ~InGrid
    /\ ret = "line214"
    /\ best_layout = None
    /\ layout' = best_layout
    /\ message' = "no_layout"
    /\ pc' = "exit"
    /\ UNCHANGED <<animation, ret, sparse, columns, rows, best_layout, result,
                   sparse_layout, removed_frame_count, add_frame_count, generated,
                   varsV1>>

\* pack_animation lines 214-222: every frame is packed, no diagnostics
ReturnDenseFit ==
    /\ pc = "compute_layout"
    /\ ~InGrid
    /\ ret = "line214"
    /\ best_layout # None
    /\ ~(best_layout.rows * best_layout.columns < animation.frame_count)
    /\ layout' = best_layout
    /\ pc' = "packing"
    /\ UNCHANGED <<animation, ret, sparse, columns, rows, best_layout, result,
                   sparse_layout, removed_frame_count, add_frame_count, message,
                   generated, varsV1>>

\* pack_animation lines 214-226: the shortfall branch calls the sparse search
ReturnDenseShortfall ==
    /\ pc = "compute_layout"
    /\ ~InGrid
    /\ ret = "line214"
    /\ best_layout # None
    /\ best_layout.rows * best_layout.columns < animation.frame_count
    /\ layout' = best_layout
    /\ removed_frame_count' =
           animation.frame_count - best_layout.rows * best_layout.columns
    /\ message' = "shortening"
    /\ ret' = "line226"
    /\ sparse' = TRUE
    /\ columns' = 1
    /\ rows' = 1
    /\ best_layout' = None
    /\ UNCHANGED <<animation, pc, result, sparse_layout, add_frame_count, generated,
                   varsV1>>

\* pack_animation lines 226-232
ReturnSparseFound ==
    /\ pc = "compute_layout"
    /\ ~InGrid
    /\ ret = "line226"
    /\ best_layout # None
    /\ sparse_layout' = best_layout
    /\ add_frame_count' =
           best_layout.rows * best_layout.columns - animation.frame_count
    /\ message' = "remove_or_add"
    /\ pc' = "packing"
    /\ UNCHANGED <<animation, ret, sparse, columns, rows, best_layout, result,
                   layout, removed_frame_count, generated, varsV1>>

\* pack_animation lines 226-236
ReturnSparseNone ==
    /\ pc = "compute_layout"
    /\ ~InGrid
    /\ ret = "line226"
    /\ best_layout = None
    /\ sparse_layout' = best_layout
    /\ message' = "remove_only"
    /\ pc' = "packing"
    /\ UNCHANGED <<animation, ret, sparse, columns, rows, best_layout, result,
                   layout, removed_frame_count, add_frame_count, generated, varsV1>>

\* the three generators, each run to exhaustion on the descriptor
RunGenerators ==
    /\ pc = "generators"
    /\ generated' = [all |-> generate_layouts(animation),
                     dense |-> generate_dense_layouts(animation),
                     sparse |-> generate_sparse_layouts(animation)]
    /\ pc' = "generated"
    /\ UNCHANGED <<animation, ret, sparse, columns, rows, best_layout, result,
                   layout, sparse_layout, removed_frame_count, add_frame_count,
                   message, varsV1>>

Next ==
    \/ Fold
    \/ Skip
    \/ ReturnTop
    \/ ReturnDenseNone
    \/ ReturnDenseFit
    \/ ReturnDenseShortfall
    \/ ReturnSparseFound
    \/ ReturnSparseNone
    \/ RunGenerators

Spec == Init /\ [][Next]_vars

----------------------------------------------------------------------------
(* Properties of the exhaustive search, checked under Spec. *)

\* the admissible grid, stated without the generators
Grid(a) ==
    {Layout(c, r) : c \in 1..(MAX_SIDE_LENGTH \div a.frame_width),
                    r \in 1..(MAX_SIDE_LENGTH \div a.frame_height)}

\* the candidates of a mode
Candidates(a, s) ==
    {l \in Grid(a) : IF s THEN l.columns * l.rows > a.frame_count
                          ELSE l.columns * l.rows <= a.frame_count}

Capacity(l) == l.columns * l.rows

Delta(a, l) == abs(l.columns * l.rows - a.frame_count)

Squareness(a, l) == abs(l.columns * a.frame_width - l.rows * a.frame_height)

\* (delta, squareness) of l is lexicographically at most that of m
KeyLeq(a, l, m) ==
    \/ Delta(a, l) < Delta(a, m)
    \/ Delta(a, l) = Delta(a, m) /\ Squareness(a, l) <= Squareness(a, m)

KeyEq(a, l, m) ==
    Delta(a, l) = Delta(a, m) /\ Squareness(a, l) = Squareness(a, m)

\* l is generated no later than m: columns outer, rows inner
NotLater(l, m) ==
    l.columns < m.columns \/ (l.columns = m.columns /\ l.rows <= m.rows)

\* l is the first generated candidate among those of least (delta, squareness)
IsFirstBest(a, s, l) ==
    /\ l \in Candidates(a, s)
    /\ \A m \in Candidates(a, s) :
          /\ KeyLeq(a, l, m)
          /\ KeyEq(a, l, m) => NotLater(l, m)

\* what compute_layout(a, s) must have returned in r
ReturnsFirstBest(a, s, r) ==
    IF Candidates(a, s) = {} THEN r = None ELSE r # None /\ IsFirstBest(a, s, r)

\* C1: compute_layout returns the candidate of its mode with the lexicographically
\* least (delta, squareness), the first generated one among those tied (None only
\* when the mode has no candidate); 100 x 100 x 10 in dense mode gives (2, 5).
C1_FirstBest ==
    /\ pc = "returned" => ReturnsFirstBest(animation, sparse, result)
    /\ pc \in {"packing", "exit"} \/ ret = "line226" =>
          ReturnsFirstBest(animation, FALSE, layout)
    /\ message \in {"remove_or_add", "remove_only"} =>
          ReturnsFirstBest(animation, TRUE, sparse_layout)
    /\ pc = "returned" /\ ~sparse /\ animation = Animation(100, 100, 10) =>
          result = Layout(2, 5)

\* the tie of the scenario: (2, 5) and (5, 2) have the same delta and squareness
C1_Witness ==
    /\ pc = "returned"
    /\ ~sparse
    /\ animation = Animation(100, 100, 10)
    /\ result = Layout(2, 5)
    /\ KeyEq(animation, Layout(2, 5), Layout(5, 2))

Admissible(a, s, l) ==
    /\ l.columns >= 1
    /\ l.rows >= 1
    /\ l.columns * a.frame_width <= 11000
    /\ l.rows * a.frame_height <= 11000
    /\ IF s THEN l.columns * l.rows > a.frame_count
            ELSE l.columns * l.rows <= a.frame_count

\* C2: every layout compute_layout returns is admissible for its mode: at least
\* one column and row, at most 11000 pixels a side, capacity <= frame_count in
\* dense mode and > frame_count in sparse mode.
C2_Admissible ==
    /\ pc = "returned" /\ result # None => Admissible(animation, sparse, result)
    /\ layout # None => Admissible(animation, FALSE, layout)
    /\ sparse_layout # None => Admissible(animation, TRUE, sparse_layout)

\* a sparse result that fills the whole 11000 pixels
C2_Witness ==
    /\ pc = "returned"
    /\ sparse
    /\ result # None
    /\ result.columns * animation.frame_width = 11000
    /\ result.columns > 1

Range(q) == {q[i] : i \in 1..Len(q)}

\* C3: the dense and the sparse generator yield disjoint sets of layouts whose
\* union is what generate_layouts yields, the whole grid, each layout once.
C3_Partition ==
    generated # None =>
        /\ Range(generated.dense) \cap Range(generated.sparse) = {}
        /\ Range(generated.dense) \cup Range(generated.sparse) = Range(generated.all)
        /\ Range(generated.all) = Grid(animation)
        /\ Len(generated.all) = Cardinality(Grid(animation))
        /\ Len(generated.dense) + Len(generated.sparse) = Cardinality(Grid(animation))

\* both parts non-empty, and a layout of capacity exactly frame_count among them
C3_Witness ==
    /\ generated # None
    /\ Len(generated.sparse) > 0
    /\ \E i \in 1..Len(generated.dense) :
          Capacity(generated.dense[i]) = animation.frame_count

Oversize(a) == a.frame_width > 11000 \/ a.frame_height > 11000

\* C4: with a frame wider or higher than 11000 both generators are empty and
\* compute_layout returns None in either mode, without an error.
C4_OversizeNone ==
    Oversize(animation) =>
        /\ pc = "compute_layout" => ~InGrid /\ best_layout = None
        /\ pc = "returned" => result = None
        /\ pc = "exit" => layout = None
        /\ pc = "generated" => generated.dense = <<>> /\ generated.sparse = <<>>
        /\ pc \in {"compute_layout", "generators", "returned", "exit", "generated"}

\* a sparse call on a frame that is too high only
C4_Witness ==
    /\ pc = "returned"
    /\ sparse
    /\ animation.frame_height > 11000
    /\ animation.frame_width < 11000
    /\ result = None

\* C6 as stated: 100 x 100 x 11 has a best dense layout of capacity 10 and the
\* driver reports the removal of one frame.
C6_Original ==
    animation = Animation(100, 100, 11) /\ pc = "packing" =>
        /\ Capacity(layout) = 10
        /\ removed_frame_count = 1

\* C6 amended: for 100 x 100 x 11 the dense search returns (1, 11), of capacity 11,
\* so the driver does not take the shortfall branch and reports nothing.
C6_Amended ==
    animation = Animation(100, 100, 11) =>
        /\ pc = "returned" /\ ~sparse => result = Layout(1, 11)
        /\ pc = "packing" =>
              /\ layout = Layout(1, 11)
              /\ Capacity(layout) = animation.frame_count
              /\ message = "none"
              /\ removed_frame_count = None
              /\ add_frame_count = None
        /\ message = "none"

C6_Witness ==
    /\ animation = Animation(100, 100, 11)
    /\ pc = "packing"
    /\ layout = Layout(1, 11)

\* the largest capacity of a set of layouts, and the smallest
MaxCapacity(S) == CHOOSE k \in {Capacity(l) : l \in S} : \A l \in S : Capacity(l) <= k

MinCapacity(S) == CHOOSE k \in {Capacity(l) : l \in S} : \A l \in S : Capacity(l) >= k

\* the driver is past the dense search, which found a layout
DenseFound == layout # None

\* C8: when the best dense layout holds fewer than frame_count frames the driver
\* reports frame_count - (largest dense capacity) frames to remove and, if a
\* sparse layout exists, (smallest sparse capacity) - frame_count frames to add,
\* else the removal alone; with a dense layout of capacity frame_count it
\* computes no diagnostics.
C8_Diagnostics ==
    /\ DenseFound /\ Capacity(layout) < animation.frame_count =>
          /\ removed_frame_count =
                animation.frame_count - MaxCapacity(Candidates(animation, FALSE))
          /\ message \in {"shortening", "remove_or_add", "remove_only"}
          /\ pc = "packing" =>
                IF Candidates(animation, TRUE) # {}
                THEN /\ message = "remove_or_add"
                     /\ add_frame_count =
                           MinCapacity(Candidates(animation, TRUE)) - animation.frame_count
                ELSE /\ message = "remove_only"
                     /\ add_frame_count = None
    /\ DenseFound /\ Capacity(layout) = animation.frame_count =>
          /\ pc = "packing"
          /\ message = "none"
          /\ removed_frame_count = None
          /\ add_frame_count = None
          /\ sparse_layout = None

\* a shortfall of two frames with a sparse layout one frame larger
C8_Witness ==
    /\ pc = "packing"
    /\ message = "remove_or_add"
    /\ removed_frame_count = 2
    /\ add_frame_count = 1

\* a shortfall with no sparse layout at all
C8_WitnessRemoveOnly ==
    /\ pc = "packing"
    /\ message = "remove_only"
    /\ removed_frame_count > 0

----------------------------------------------------------------------------
(* pack_images.py *)

\* the random walk may take a coordinate down to -MaxExcursion
MaxExcursion == 1

RECURSIVE sqrt_search(_, _, _)
\* the largest s in lo..hi with s * s <= p
sqrt_search(p, lo, hi) ==
    IF lo = hi THEN lo
    ELSE LET mid == (lo + hi + 1) \div 2
         IN  IF mid * mid <= p THEN sqrt_search(p, mid, hi)
             ELSE sqrt_search(p, lo, mid - 1)

\* floor(math.sqrt(p)), for p below 46340 * 46340
sqrt_floor(p) == sqrt_search(p, 0, 46340)

\* int(side_length / frame_width) with side_length = math.sqrt(pixels): for a
\* positive integer w, floor(x / w) = floor(floor(x) / w), and for the values of
\* the model the float square root and quotient truncate to the exact floors.
make_initial_state(a) ==
    LET pixels == a.frame_width * a.frame_height * a.frame_count
        side_length == sqrt_floor(pixels)
    IN  Layout(side_length \div a.frame_width, side_length \div a.frame_height)

\* mutant of state_valid: the test for a zero row or column count is missing
state_valid_without_zero_test(state, a) ==
    LET width == state.columns * a.frame_width
        height == state.rows * a.frame_height
    IN  IF width > 11000 \/ height > 11000 THEN FALSE
        ELSE state.rows * state.columns <= a.frame_count

state_valid(state, a) ==
    IF state.rows = 0 \/ state.columns = 0 THEN FALSE
    ELSE LET width == state.columns * a.frame_width
             height == state.rows * a.frame_height
         IN  IF width > 11000 \/ height > 11000 THEN FALSE
             ELSE state.rows * state.columns <= a.frame_count

\* the tuple of lambdas: index 1 adds one, index 2 takes one away
mutations(m, x) == IF m = 1 THEN x + 1 ELSE x - 1

\* m is the draw of random.choice(mutations), coin that of random.randint(0, 1)
mutate_state(state, a, m, coin) ==
    LET next_state == IF coin = 1
                      THEN Layout(mutations(m, state.columns), state.rows)
                      ELSE Layout(state.columns, mutations(m, state.rows))
    IN  IF state_valid(next_state, a) THEN next_state ELSE state

compute_energy(state, a) == a.frame_count - state.rows * state.columns

\* Temperatures are counted in units of 0.001: temp_max 15, temp_min 0.001.
temp_max == 15000

temp_min == 1

\* mutant of cool_temp: the temperature is not lowered
cool_temp_stuck(temp) == temp

cool_temp(temp) == temp - 1

\* current_temp > params.temp_min.  The float reached after k subtractions of
\* 0.001 from 15 is not (15000 - k) / 1000: after 14999 of them it is
\* 0.0010000000028732641, still above 0.001, and after 15000 it is 2.87e-12.  The
\* loop therefore runs while the count of units is at least 1.
loop_continues(temp) == temp >= temp_min

\* math.exp((current_energy - next_energy) / current_temp) > random.random(),
\* evaluated only when next_energy >= current_energy; `draw` is random.random(),
\* told apart only as "low" (below the exponential) or "high" (not below it).
\* For equal energies the exponential is 1.0 and exceeds every draw of [0, 1).
\* For a worse energy it is below 1, so a draw can fall on either side of it,
\* until it underflows to 0.0: no draw is below that.  It underflows when the
\* quotient is under -745.13, which for the floats of this schedule is when
\* 100000 * (next_energy - current_energy) > 74513 * (units of temperature).
exp_exceeds_random(energy_delta, temp, draw) ==
    IF energy_delta >= 0 THEN TRUE
    ELSE IF (0 - energy_delta) * 100000 > 74513 * temp THEN FALSE
    ELSE draw = "low"

\* lines 39-42
accepts(next_energy, energy, temp, draw) ==
    next_energy < energy \/ exp_exceeds_random(energy - next_energy, temp, draw)

\* mutant of improves: an equal energy replaces the best state too
improves_or_equals(next_energy, energy) == next_energy <= energy

\* line 46
improves(next_energy, energy) == next_energy < energy

Min(x, y) == IF x < y THEN x ELSE y

\* One descriptor for each kind of initial state the square-root heuristic
\* builds: valid (1 x 1 for 2 frames), no column, no row, and 2 x 2 frames of
\* 11000 pixels a side.
AnnealDescriptors ==
    {Animation(5500, 5500, 2),
     Animation(11000, 5500, 1),
     Animation(5500, 11000, 1),
     Animation(11000, 11000, 4)}

\* pack_imagesv2.py does not run
IdleV2 ==
    /\ ret = "top"
    /\ sparse = FALSE
    /\ columns = 0
    /\ rows = 0
    /\ best_layout = None
    /\ result = None
    /\ layout = None
    /\ sparse_layout = None
    /\ removed_frame_count = None
    /\ add_frame_count = None
    /\ message = "none"
    /\ generated = None

\* compute_layout lines 100-109 and simulate_annealing lines 27-33
InitAnneal ==
    /\ animation \in AnnealDescriptors
    /\ pc = "loop"
    /\ initial_state = make_initial_state(animation)
    /\ current_state = initial_state
    /\ current_energy = compute_energy(current_state, animation)
    /\ best_state = current_state
    /\ best_energy = current_energy
    /\ current_temp = temp_max
    /\ iterations = 0
    /\ min_energy = current_energy
    /\ IdleV2

\* one pass of the while loop, lines 35-50
Iterate ==
    /\ pc = "loop"
    /\ loop_continues(current_temp)
    /\ \E m \in {1, 2}, coin \in {0, 1}, draw \in {"low", "high"} :
          LET next_state == mutate_state(current_state, animation, m, coin)
              next_energy == compute_energy(next_state, animation)
          IN  /\ next_state.columns >= 0 - MaxExcursion
              /\ next_state.rows >= 0 - MaxExcursion
              /\ IF accepts(next_energy, current_energy, current_temp, draw)
                 THEN /\ current_state' = next_state
                      /\ current_energy' = next_energy
                      /\ min_energy' = Min(min_energy, next_energy)
                      /\ IF improves(next_energy, best_energy)
                         THEN /\ best_state' = next_state
                              /\ best_energy' = next_energy
                         ELSE UNCHANGED <<best_state, best_energy>>
                 ELSE UNCHANGED <<current_state, current_energy, best_state,
                                  best_energy, min_energy>>
    /\ current_temp' = cool_temp(current_temp)
    /\ iterations' = iterations + 1
    /\ UNCHANGED <<animation, pc, initial_state, varsV2>>

\* line 52: the loop is left and best_state is returned
Return ==
    /\ pc = "loop"
    /\ ~loop_continues(current_temp)
    /\ pc' = "done"
    /\ UNCHANGED <<animation, varsV1, varsV2>>

NextAnneal == Iterate \/ Return

SpecAnneal == InitAnneal /\ [][NextAnneal]_vars

\* the script runs on once started: no step of it is postponed for ever
FairAnneal == SpecAnneal /\ WF_vars(NextAnneal)

----------------------------------------------------------------------------
(* Properties of the annealing search, checked under SpecAnneal and FairAnneal. *)

NonDegenerate(state) == state.columns >= 1 /\ state.rows >= 1

Degenerate(state) == state.columns = 0 \/ state.rows = 0

\* the validity predicate, stated without state_valid
Valid(state, a) ==
    /\ state.rows # 0
    /\ state.columns # 0
    /\ state.columns * a.frame_width <= 11000
    /\ state.rows * a.frame_height <= 11000
    /\ state.rows * state.columns <= a.frame_count

\* C5 as stated: from a non-degenerate initial state, every current_state and the
\* state returned satisfy the validity predicate.
C5_Original ==
    NonDegenerate(initial_state) =>
        /\ Valid(current_state, animation)
        /\ pc = "done" => Valid(best_state, animation)

\* C5, what the code does keep: a valid initial state leaves every current_state
\* and the state returned valid.
C5_ValidStaysValid ==
    Valid(initial_state, animation) =>
        /\ Valid(current_state, animation)
        /\ Valid(best_state, animation)

\* C5: the run of 11000 x 11000 x 4 ends on the 2 x 2 layout of 22000 pixels a side
C5_ReturnsOversize ==
    ~(/\ pc = "done"
      /\ NonDegenerate(initial_state)
      /\ best_state.columns * animation.frame_width > 11000)

\* C7 as stated: a degenerate initial state is the state returned.
C7_Original ==
    Degenerate(initial_state) /\ pc = "done" => best_state = initial_state

\* what C7 amended says of the best state, at every point of the search
C7_ReturnedState ==
    Degenerate(initial_state) =>
        \/ best_state = initial_state
        \/ /\ Valid(best_state, animation)
           /\ NonDegenerate(best_state)
           /\ compute_energy(best_state, animation)
                 < compute_energy(initial_state, animation)

\* C7 amended: from a degenerate initial state the search ends (no step of it can
\* fail) and returns either that state or a valid state of at least one column
\* and row and of lower energy, which a mutation of the zero coordinate to 1
\* can reach.
C7_Amended ==
    /\ C7_ReturnedState
    /\ [][C7_ReturnedState']_vars
    /\ Degenerate(initial_state) ~> pc = "done"

\* the search left the degenerate state of 11000 x 5500 x 1 for (1, 1)
C7_Witness ==
    /\ pc = "done"
    /\ Degenerate(initial_state)
    /\ initial_state = Layout(0, 1)
    /\ best_state = Layout(1, 1)

\* the search returned the degenerate state after a walk through negative columns
C7_WitnessStays ==
    /\ pc = "done"
    /\ Degenerate(initial_state)
    /\ best_state = initial_state
    /\ current_state.columns < 0

C9_State ==
    /\ best_energy = compute_energy(best_state, animation)
    /\ current_energy = compute_energy(current_state, animation)
    /\ best_energy <= current_energy
    /\ best_energy = min_energy
    /\ best_energy <= compute_energy(initial_state, animation)

C9_Step ==
    best_state' # best_state =>
        /\ best_state' = current_state'
        /\ current_state' # current_state
        /\ best_energy' = current_energy'
        /\ best_energy' < best_energy

\* C9: after every iteration best_energy is the energy of best_state, is at most
\* current_energy and is the least energy among the initial and the accepted
\* states, so at most the initial energy; best_state changes only to a state just
\* accepted whose energy is strictly below the previous best.
C9_BestIsLeast ==
    /\ C9_State
    /\ [][C9_State' /\ C9_Step]_vars

\* a worse move was accepted after the best state improved
C9_Witness ==
    /\ pc = "loop"
    /\ iterations > 1
    /\ best_energy < compute_energy(initial_state, animation)
    /\ current_energy > best_energy

C10_Step ==
    /\ iterations' # iterations =>
          /\ current_temp' < current_temp
          /\ iterations' = iterations + 1
    /\ iterations' + current_temp' = 15000
    /\ pc' = "done" => iterations' = 15000

\* C10: the temperature falls by one unit of 0.001 on every iteration, accepted
\* or not, the loop is left after 15000 iterations and the search returns, for
\* every descriptor and every sequence of draws.
C10_Terminates ==
    /\ [][C10_Step]_vars
    /\ <>(pc = "done")

C10_Witness ==
    /\ pc = "done"
    /\ iterations = 15000
    /\ current_temp = 0

=============================================================================
